---- MODULE Spec2Model ----
(***************************************************************************)
(* A model of phonebook_app.py: the persistence adapter                    *)
(* (PhonebookDataHandler), the record store (Phonebook) and the menu loop  *)
(* (PhonebookApp.run).                                                     *)
(*                                                                         *)
(* Text is a sequence of one-character strings.  A Python value is a       *)
(* tagged record [t, v]:                                                   *)
(*   t = "str"   v = the characters of the string                          *)
(*   t = "int"   v = the decimal digits of the integer (with its sign)     *)
(*   t = "lit"   v = the characters of null / true / false                 *)
(*   t = "list"  v = the sequence of the elements                          *)
(*   t = "dict"  v = the sequence of <<key, value>> pairs, insertion order *)
(***************************************************************************)
EXTENDS Integers, Sequences, FiniteSets, TLC

VARIABLES
    file,       \* the storage location: [exists, data], data = its bytes as text
    records,    \* Phonebook.records
    pc,         \* "new": before main(), "run": in the menu loop,
                \* "done": after choice 5, "crashed": an exception left main()
    last,       \* what the last call was, what it was given and what it produced
    faults      \* how many writes of the file have failed so far

vars == <<file, records, pc, last, faults>>

----------------------------------------------------------------------------
(* Characters *)

LF    == "\n"
QUOTE == "\""
BSL   == "\\"
\* a byte sequence that is not valid UTF-8 (such as 0xFF)
BADBYTE == "<0xFF>"

\* one non-ASCII letter in its two cases (U+042F and U+044F), each one character
CYR_UPPER == "<U+042F>"
CYR_LOWER == "<U+044F>"

Whitespace == {" ", "\t", LF, "\r"}
Digits     == {"0", "1", "2", "3", "4", "5", "6", "7", "8", "9"}

\* str.lower() on the characters the model uses
LowerChar(c) ==
    CASE c = "A" -> "a"
      [] c = "B" -> "b"
      [] c = CYR_UPPER -> CYR_LOWER
      [] OTHER   -> c

Lower(s) == [i \in 1..Len(s) |-> LowerChar(s[i])]

RECURSIVE Concat(_)
\* "".join(parts)
Concat(parts) ==
    IF parts = <<>> THEN <<>> ELSE Head(parts) \o Concat(Tail(parts))

\* `sub in s` for Python strings
Contains(s, sub) ==
    \E i \in 0..(Len(s) - Len(sub)) :
        \A j \in 1..Len(sub) : s[i + j] = sub[j]

----------------------------------------------------------------------------
(* Python values *)

PyStr(chars)  == [t |-> "str", v |-> chars]
PyInt(digits) == [t |-> "int", v |-> digits]
PyLit(chars)  == [t |-> "lit", v |-> chars]
PyList(elems) == [t |-> "list", v |-> elems]
PyDict(pairs) == [t |-> "dict", v |-> pairs]

\* str(n) for an integer of one digit, as json.dumps writes an int key
IntText(n) ==
    IF n < 0 THEN <<"-", ToString(-n)>> ELSE <<ToString(n)>>

\* hash/eq of dict keys: a str key and an int key are different keys
SameKey(a, b) == a.t = b.t /\ a.v = b.v

\* d[key] = val on a dict's pairs: replace the value in place, or append a new key
DictSet(pairs, key, val) ==
    IF \E i \in 1..Len(pairs) : SameKey(pairs[i][1], key)
    THEN [i \in 1..Len(pairs) |->
            IF SameKey(pairs[i][1], key) THEN <<pairs[i][1], val>> ELSE pairs[i]]
    ELSE Append(pairs, <<key, val>>)

RECURSIVE PyEq(_, _)
\* Python's == on values: lists by position, dicts by key regardless of order
PyEq(a, b) ==
    IF a.t # b.t THEN FALSE
    ELSE IF a.t = "list" THEN
        /\ Len(a.v) = Len(b.v)
        /\ \A i \in 1..Len(a.v) : PyEq(a.v[i], b.v[i])
    ELSE IF a.t = "dict" THEN
        /\ Len(a.v) = Len(b.v)
        /\ \A i \in 1..Len(a.v) : \E j \in 1..Len(b.v) :
              /\ SameKey(a.v[i][1], b.v[j][1])
              /\ PyEq(a.v[i][2], b.v[j][2])
    ELSE a.v = b.v

----------------------------------------------------------------------------
(* json.dumps / json.dump with ensure_ascii=False *)

\* an encoder that writes every character raw
EscapeChar_Raw(c) == <<c>>

\* json.encoder ESCAPE_DCT: the characters a string literal cannot hold raw
EscapeChar(c) ==
    CASE c = QUOTE -> <<BSL, QUOTE>>
      [] c = BSL   -> <<BSL, BSL>>
      [] c = LF    -> <<BSL, "n">>
      [] c = "\t"  -> <<BSL, "t">>
      [] c = "\r"  -> <<BSL, "r">>
      [] OTHER     -> <<c>>

\* encode_basestring: the quoted literal of a string
EncodeString(chars) ==
    <<QUOTE>> \o Concat([i \in 1..Len(chars) |-> EscapeChar(chars[i])]) \o <<QUOTE>>

\* a dict key as json writes it: str keys as they are, int keys as their text
KeyText(k) == k.v

Spaces(n) == [i \in 1..n |-> " "]

RECURSIVE JoinWith(_, _)
\* sep.join(parts)
JoinWith(parts, sep) ==
    IF parts = <<>> THEN <<>>
    ELSE IF Len(parts) = 1 THEN parts[1]
    ELSE parts[1] \o sep \o JoinWith(Tail(parts), sep)

RECURSIVE Dumps(_, _, _)
\* json.dumps(value, indent=indent, ensure_ascii=False) at nesting depth `level`;
\* indent = 0 stands for indent=None (separators ", " and ": ", one line),
\* indent > 0 for an indented dump (separators "," and ": ", one item per line)
Dumps(val, indent, level) ==
    LET nl(lv)  == IF indent = 0 THEN <<>> ELSE <<LF>> \o Spaces(indent * lv)
        itemsep == IF indent = 0 THEN <<",", " ">> ELSE <<",">> \o nl(level + 1)
    IN  CASE val.t = "str" -> EncodeString(val.v)
          [] val.t = "int" -> val.v
          [] val.t = "lit" -> val.v
          [] val.t = "list" ->
                IF val.v = <<>> THEN <<"[", "]">>
                ELSE <<"[">> \o nl(level + 1)
                     \o JoinWith([i \in 1..Len(val.v) |->
                                    Dumps(val.v[i], indent, level + 1)], itemsep)
                     \o nl(level) \o <<"]">>
          [] val.t = "dict" ->
                IF val.v = <<>> THEN <<"{", "}">>
                ELSE <<"{">> \o nl(level + 1)
                     \o JoinWith([i \in 1..Len(val.v) |->
                                    EncodeString(KeyText(val.v[i][1])) \o <<":", " ">>
                                    \o Dumps(val.v[i][2], indent, level + 1)], itemsep)
                     \o nl(level) \o <<"}">>

\* the indent save_records passes to json.dump
SaveIndent == 4

----------------------------------------------------------------------------
(* json.load: json.decoder.JSONDecoder.decode and json.scanner.py_make_scanner. *)
(* A parse result is [ok, v, i]: whether it succeeded, the value, and the      *)
(* index of the first character after it.                                     *)

Fail == [ok |-> FALSE, v |-> PyLit(<<>>), i |-> 0]
Ok(val, next) == [ok |-> TRUE, v |-> val, i |-> next]

At(s, i) == IF i >= 1 /\ i <= Len(s) THEN s[i] ELSE "<EOF>"

RECURSIVE SkipWs(_, _)
\* WHITESPACE.match(s, i).end()
SkipWs(s, i) == IF At(s, i) \in Whitespace THEN SkipWs(s, i + 1) ELSE i

\* s[i : i + len(word)] == word
StartsWith(s, i, word) == \A j \in 1..Len(word) : At(s, i + j - 1) = word[j]

\* json.decoder BACKSLASH: the character an escape letter stands for; the
\* model's text has no backspace or form feed and no \u escapes
Unescape(c) ==
    CASE c = QUOTE -> QUOTE
      [] c = BSL   -> BSL
      [] c = "/"   -> "/"
      [] c = "n"   -> LF
      [] c = "t"   -> "\t"
      [] c = "r"   -> "\r"
      [] OTHER     -> "<invalid>"

RECURSIVE ScanString(_, _, _)
\* py_scanstring(s, i, strict=True) with the opening quote already consumed:
\* an unterminated string, a raw control character or an unknown escape is
\* a JSONDecodeError
ScanString(s, i, acc) ==
    LET c == At(s, i) IN
    IF c = "<EOF>" THEN Fail
    ELSE IF c = QUOTE THEN Ok(PyStr(acc), i + 1)
    ELSE IF c \in {LF, "\t", "\r"} THEN Fail
    ELSE IF c = BSL THEN
        IF Unescape(At(s, i + 1)) = "<invalid>" THEN Fail
        ELSE ScanString(s, i + 2, Append(acc, Unescape(At(s, i + 1))))
    ELSE ScanString(s, i + 1, Append(acc, c))

RECURSIVE DigitsEnd(_, _)
\* the index after the run of digits that starts at i
DigitsEnd(s, i) == IF At(s, i) \in Digits THEN DigitsEnd(s, i + 1) ELSE i

\* NUMBER_RE, integers only: -?(0|[1-9][0-9]*); the model's files hold no
\* fraction or exponent
ScanNumber(s, i) ==
    LET d == IF At(s, i) = "-" THEN i + 1 ELSE i
        e == IF At(s, d) = "0" THEN d + 1 ELSE DigitsEnd(s, d)
    IN  IF At(s, d) \in Digits THEN Ok(PyInt(SubSeq(s, i, e - 1)), e) ELSE Fail

RECURSIVE ScanOnce(_, _), ParseArray(_, _, _), ParseObject(_, _, _)

\* py_make_scanner._scan_once(string, idx)
ScanOnce(s, i) ==
    LET c == At(s, i) IN
    IF c = QUOTE THEN ScanString(s, i + 1, <<>>)
    ELSE IF c = "{" THEN
        LET j == SkipWs(s, i + 1) IN
        IF At(s, j) = "}" THEN Ok(PyDict(<<>>), j + 1)
        ELSE ParseObject(s, j, <<>>)
    ELSE IF c = "[" THEN
        LET j == SkipWs(s, i + 1) IN
        IF At(s, j) = "]" THEN Ok(PyList(<<>>), j + 1)
        ELSE ParseArray(s, j, <<>>)
    ELSE IF StartsWith(s, i, <<"n", "u", "l", "l">>)
        THEN Ok(PyLit(<<"n", "u", "l", "l">>), i + 4)
    ELSE IF StartsWith(s, i, <<"t", "r", "u", "e">>)
        THEN Ok(PyLit(<<"t", "r", "u", "e">>), i + 4)
    ELSE IF StartsWith(s, i, <<"f", "a", "l", "s", "e">>)
        THEN Ok(PyLit(<<"f", "a", "l", "s", "e">>), i + 5)
    ELSE ScanNumber(s, i)

\* JSONArray: the elements from index i on, acc the elements parsed so far
ParseArray(s, i, acc) ==
    LET e == ScanOnce(s, i) IN
    IF ~e.ok THEN Fail
    ELSE LET j == SkipWs(s, e.i) IN
         IF At(s, j) = "]" THEN Ok(PyList(Append(acc, e.v)), j + 1)
         ELSE IF At(s, j) = "," THEN ParseArray(s, SkipWs(s, j + 1), Append(acc, e.v))
         ELSE Fail

\* JSONObject: the pairs from index i on (i at the key's opening quote);
\* dict(pairs) keeps a repeated key at its first position with its last value
ParseObject(s, i, acc) ==
    IF At(s, i) # QUOTE THEN Fail
    ELSE LET k == ScanString(s, i + 1, <<>>) IN
         IF ~k.ok THEN Fail
         ELSE LET c == SkipWs(s, k.i) IN
              IF At(s, c) # ":" THEN Fail
              ELSE LET e == ScanOnce(s, SkipWs(s, c + 1)) IN
                   IF ~e.ok THEN Fail
                   ELSE LET j == SkipWs(s, e.i)
                            pairs == DictSet(acc, k.v, e.v)
                        IN  IF At(s, j) = "}" THEN Ok(PyDict(pairs), j + 1)
                            ELSE IF At(s, j) = ","
                                THEN ParseObject(s, SkipWs(s, j + 1), pairs)
                            ELSE Fail

\* JSONDecoder.decode: one value, surrounded by whitespace only
Loads(s) ==
    LET r == ScanOnce(s, SkipWs(s, 1)) IN
    IF ~r.ok THEN Fail
    ELSE IF SkipWs(s, r.i) # Len(s) + 1 THEN Fail
    ELSE r

----------------------------------------------------------------------------
(* Bounds of the model *)

\* add_record is not called once the collection holds this many records
MaxRecords == 2

\* the storage fails at most this many writes
MaxFaults == 1

----------------------------------------------------------------------------
(* Records and the inputs of the calls *)

\* the keys of input_record_data's dict, in the order it writes them
FieldNames ==
    << <<"l", "a", "s", "t", "_", "n", "a", "m", "e">>,
       <<"f", "i", "r", "s", "t", "_", "n", "a", "m", "e">>,
       <<"m", "i", "d", "d", "l", "e", "_", "n", "a", "m", "e">>,
       <<"o", "r", "g", "a", "n", "i", "z", "a", "t", "i", "o", "n">>,
       <<"w", "o", "r", "k", "_", "p", "h", "o", "n", "e">>,
       <<"p", "e", "r", "s", "o", "n", "a", "l", "_", "p", "h", "o", "n", "e">> >>

\* input_record_data: the dict of the six answers
InputRecord(answers) ==
    PyDict([i \in 1..Len(FieldNames) |-> <<PyStr(FieldNames[i]), PyStr(answers[i])>>])

\* an upper-case surname, every other field empty
RecA == InputRecord(<< <<"A">>, <<>>, <<>>, <<>>, <<>>, <<>> >>)
\* a non-ASCII given name, and values holding a quote, a backslash and a line feed
RecB == InputRecord(<< <<>>, <<CYR_UPPER>>, <<>>, <<QUOTE>>, <<"1">>, <<BSL, LF>> >>)
\* lower-case values only
RecC == InputRecord(<< <<"a">>, <<>>, <<>>, <<>>, <<>>, <<>> >>)

\* what the user may answer at the prompts of choices "2" and "3"
InputRecords == {RecA, RecB}

\* what the user may type at the search prompt, or a caller pass to search_records
SearchTerms ==
    { <<>>, <<"A">>, <<"a">>, <<CYR_UPPER>>, <<CYR_LOWER>>, <<QUOTE>>, <<"x">> }

\* the indexes a caller may pass to edit_record
EditIndexes == (0 - 3) .. 3

\* the numbers typed at the prompt of choice "3"
MenuNumbers == 0 .. 2

\* page numbers and page sizes passed to display_records
PageNumbers == 1..3
PageSizes   == {1, 2, 5}

\* run(): records_per_page = 5
RecordsPerPage == 5

----------------------------------------------------------------------------
(* The storage location *)

NoFile       == [exists |-> FALSE, data |-> <<>>]
FileOf(text) == [exists |-> TRUE, data |-> text]

\* the JSON object a file may hold in place of an array
ObjectFile == <<"{", QUOTE, "a", QUOTE, ":", " ", QUOTE, "b", QUOTE, "}">>

\* what phonebook.json may hold when main() starts
InitialFiles ==
    { NoFile,
      FileOf(<<>>),
      FileOf(<<"[", LF, " ", "{">>),
      FileOf(<<BADBYTE>>),
      FileOf(ObjectFile),
      FileOf(Dumps(PyList(<<RecA>>), SaveIndent, 0)) }

(* PhonebookDataHandler.load_records: [raised, val] *)
load_records(f) ==
    IF ~f.exists THEN [raised |-> "", val |-> PyList(<<>>)]
    ELSE IF \E i \in 1..Len(f.data) : f.data[i] = BADBYTE
        THEN [raised |-> "UnicodeDecodeError", val |-> PyList(<<>>)]
    ELSE LET r == Loads(f.data) IN
         IF r.ok THEN [raised |-> "", val |-> r.v]
         ELSE [raised |-> "", val |-> PyList(<<>>)]

\* a save that swallows the errors of the storage
save_records_Swallow(f, recs) ==
    { [file |-> FileOf(Dumps(recs, SaveIndent, 0)), raised |-> ""],
      [file |-> f, raised |-> ""],
      [file |-> FileOf(<<>>), raised |-> ""] }

\* where a write that fails part-way stops: any prefix can be left, the model
\* takes the one that ends half-way
WriteCuts(text) == {Len(text) \div 2}

(* PhonebookDataHandler.save_records: the set of outcomes [file, raised].    *)
(* open(filename, "w") either fails and leaves the location alone, or        *)
(* truncates it; json.dump then writes the text, and a write error leaves    *)
(* the part written so far.                                                  *)
save_records(f, recs) ==
    LET text == Dumps(recs, SaveIndent, 0) IN
    { [file |-> FileOf(text), raised |-> ""],
      [file |-> f, raised |-> "PermissionError"] }
    \cup { [file |-> FileOf(SubSeq(text, 1, n)), raised |-> "OSError"] :
                n \in WriteCuts(text) }

----------------------------------------------------------------------------
(* Python list operations *)

\* an insertion at the front
ListAppend_Front(v, r) == <<r>> \o v

\* list.append(r)
ListAppend(v, r) == Append(v, r)

\* an insertion before the position instead of a replacement
ListSetItem_Insert(v, idx, r) ==
    LET n   == Len(v)
        pos == IF idx < 0 THEN n + idx + 1 ELSE idx + 1
    IN  IF pos >= 1 /\ pos <= n
        THEN [ok |-> TRUE, v |-> SubSeq(v, 1, pos - 1) \o <<r>> \o SubSeq(v, pos, n)]
        ELSE [ok |-> FALSE, v |-> v]

\* v[idx] = r on a list: [ok, v]; a negative idx counts from the end, and
\* an idx outside -len(v) .. len(v)-1 is an IndexError
ListSetItem(v, idx, r) ==
    LET n   == Len(v)
        pos == IF idx < 0 THEN n + idx + 1 ELSE idx + 1
    IN  IF pos >= 1 /\ pos <= n
        THEN [ok |-> TRUE, v |-> [v EXCEPT ![pos] = r]]
        ELSE [ok |-> FALSE, v |-> v]

\* a slice that takes the stop index as the last one wanted, one too far
PySlice_Inclusive(v, start, stop) ==
    LET n == Len(v)
        clamp(k) == IF k < 0 THEN (IF n + k < 0 THEN 0 ELSE n + k)
                    ELSE (IF k > n THEN n ELSE k)
    IN  SubSeq(v, clamp(start) + 1, clamp(stop + 1))

\* v[start:stop] on a list
PySlice(v, start, stop) ==
    LET n == Len(v)
        clamp(k) == IF k < 0 THEN (IF n + k < 0 THEN 0 ELSE n + k)
                    ELSE (IF k > n THEN n ELSE k)
    IN  SubSeq(v, clamp(start) + 1, clamp(stop))

\* what `for record in self.records` yields: a list's elements, a dict's keys
Iterate(recs) ==
    IF recs.t = "list" THEN recs.v ELSE [i \in 1..Len(recs.v) |-> recs.v[i][1]]

\* json.dumps(record, ensure_ascii=False) in search_records; a bare int (a dict
\* key met while iterating) is written as its digits
Rendering(e) == Dumps(e, 0, 0)

----------------------------------------------------------------------------
(* Phonebook: each method as the set of its outcomes *)

\* display_records: [raised, signal, out], out the printed <<number, record>> lines
display_records(recs, page_num, records_per_page) ==
    LET start_idx == (page_num - 1) * records_per_page
        end_idx   == start_idx + records_per_page
    IN  IF recs.v = <<>> THEN [raised |-> "", signal |-> "empty", out |-> <<>>]
        ELSE IF recs.t # "list" THEN [raised |-> "TypeError", signal |-> "", out |-> <<>>]
        ELSE LET page == PySlice(recs.v, start_idx, end_idx) IN
             [raised |-> "", signal |-> "",
              out |-> [i \in 1..Len(page) |-> <<start_idx + i, page[i]>>]]

\* what a method without a return statement returns
Nothing == PyLit(<<"N", "o", "n", "e">>)

\* persist after a mutation: the outcomes of save_records with the new records;
\* neither add_record nor edit_record returns a value
SaveAfter(recs2, f) ==
    { [records |-> recs2, file |-> s.file, raised |-> s.raised, saved |-> TRUE,
       ret |-> Nothing] :
        s \in save_records(f, recs2) }

\* an exception before any mutation
Raise(recs, f, exc) ==
    { [records |-> recs, file |-> f, raised |-> exc, saved |-> FALSE, ret |-> Nothing] }

\* add_record: outcomes [records, file, raised, saved, ret]
add_record(recs, f, r) ==
    IF recs.t = "list" THEN SaveAfter(PyList(ListAppend(recs.v, r)), f)
    ELSE Raise(recs, f, "AttributeError")

\* edit_record: outcomes [records, file, raised, saved, ret]
edit_record(recs, f, record_idx, r) ==
    IF recs.t = "list" THEN
        LET w == ListSetItem(recs.v, record_idx, r) IN
        IF w.ok THEN SaveAfter(PyList(w.v), f) ELSE Raise(recs, f, "IndexError")
    ELSE SaveAfter(PyDict(DictSet(recs.v, PyInt(IntText(record_idx)), r)), f)

\* search_records: the found records
search_records(recs, search_term) ==
    LET Found(e) == Contains(Lower(Rendering(e)), search_term)
    IN  SelectSeq(Iterate(recs), Found)

----------------------------------------------------------------------------
(* The state machine *)

\* no call has been made since main() started
NoCall ==
    [op |-> "none", via |-> "", raised |-> "", idx |-> 0, rec |-> Nothing,
     term |-> <<>>, page |-> 0, size |-> 0, signal |-> "", out |-> <<>>,
     ret |-> Nothing, saved |-> FALSE, recovering |-> FALSE]

\* the save step of the last call failed
SaveFailed(l) == l.saved /\ l.raised # ""

\* the record of a call made now; it is recovering when the call before it was
\* an add or an edit whose save step failed
Call(op, via) ==
    [NoCall EXCEPT !.op = op, !.via = via,
        !.recovering = SaveFailed(last) /\ last.op \in {"add", "edit"}]

\* an exception that reaches run() is not caught there: it ends the process;
\* a caller of the store's methods gets it and may go on
AfterCall(via, raised) ==
    IF via = "menu" /\ raised # "" THEN "crashed" ELSE "run"

Callers == {"menu", "store"}

Init ==
    /\ file \in InitialFiles
    /\ records = PyList(<<>>)
    /\ pc = "new"
    /\ last = NoCall
    /\ faults = 0

\* the storage can still fail a write; a call that never reaches save_records
\* is not a write
CanHappen(o) == (o.saved /\ o.raised # "") => faults < MaxFaults
Count(o) == IF o.saved /\ o.raised # "" THEN faults + 1 ELSE faults

\* main(): Phonebook.__init__ loads the records; run() starts
Construct ==
    /\ pc = "new"
    /\ LET r == load_records(file) IN
        /\ records' = r.val
        /\ pc' = IF r.raised # "" THEN "crashed" ELSE "run"
        /\ last' = [NoCall EXCEPT !.op = "load", !.raised = r.raised, !.ret = r.val]
    /\ UNCHANGED <<file, faults>>

\* choice "1" with the page number typed, or display_records called directly
DisplayRecords(via, page_num, records_per_page) ==
    /\ pc = "run"
    /\ via = "menu" => records_per_page = RecordsPerPage
    /\ LET d == display_records(records, page_num, records_per_page) IN
        /\ last' = [Call("display", via) EXCEPT !.page = page_num,
                        !.size = records_per_page, !.raised = d.raised,
                        !.signal = d.signal, !.out = d.out]
        /\ pc' = AfterCall(via, d.raised)
    /\ UNCHANGED <<file, records, faults>>

\* choice "2", or add_record called directly
AddRecord(via, r) ==
    /\ pc = "run"
    /\ Len(records.v) < MaxRecords
    /\ \E o \in add_record(records, file, r) :
        /\ CanHappen(o)
        /\ faults' = Count(o)
        /\ records' = o.records
        /\ file' = o.file
        /\ last' = [Call("add", via) EXCEPT !.rec = r, !.raised = o.raised,
                        !.saved = o.saved, !.ret = o.ret]
        /\ pc' = AfterCall(via, o.raised)

\* edit_record called directly, with any index, on a store that holds a list
EditRecord(record_idx, r) ==
    /\ pc = "run"
    /\ records.t = "list"
    /\ \E o \in edit_record(records, file, record_idx, r) :
        /\ CanHappen(o)
        /\ faults' = Count(o)
        /\ records' = o.records
        /\ file' = o.file
        /\ last' = [Call("edit", "store") EXCEPT !.idx = record_idx, !.rec = r,
                        !.raised = o.raised, !.saved = o.saved, !.ret = o.ret]
        /\ pc' = "run"

\* choice "3" with the number typed: the range check, then edit_record
MenuEdit(number, r) ==
    /\ pc = "run"
    /\ LET record_idx == number - 1 IN
        IF 0 <= record_idx /\ record_idx < Len(records.v) THEN
            /\ records.t = "dict" =>
                  \/ Len(records.v) < MaxRecords
                  \/ \E i \in 1..Len(records.v) :
                        SameKey(records.v[i][1], PyInt(IntText(record_idx)))
            /\ \E o \in edit_record(records, file, record_idx, r) :
                /\ CanHappen(o)
                /\ faults' = Count(o)
                /\ records' = o.records
                /\ file' = o.file
                /\ last' = [Call("edit", "menu") EXCEPT !.idx = record_idx, !.rec = r,
                                !.raised = o.raised, !.saved = o.saved, !.ret = o.ret]
                /\ pc' = AfterCall("menu", o.raised)
        ELSE
            /\ last' = [Call("edit", "menu") EXCEPT !.idx = record_idx, !.rec = r,
                            !.signal = "invalid number"]
            /\ UNCHANGED <<file, records, pc, faults>>

\* search_records called directly with the term as given
SearchRecords(search_term) ==
    /\ pc = "run"
    /\ last' = [Call("search", "store") EXCEPT !.term = search_term,
                    !.out = search_records(records, search_term)]
    /\ UNCHANGED <<file, records, pc, faults>>

\* choice "4": the typed term is lower-cased, then search_records
MenuSearch(typed) ==
    /\ pc = "run"
    /\ last' = [Call("search", "menu") EXCEPT !.term = typed,
                    !.out = search_records(records, Lower(typed))]
    /\ UNCHANGED <<file, records, pc, faults>>

\* data_handler.save_records(records) by a caller that goes on
Flush ==
    /\ pc = "run"
    /\ \E s \in save_records(file, records) :
        /\ s.raised # "" => faults < MaxFaults
        /\ faults' = IF s.raised # "" THEN faults + 1 ELSE faults
        /\ file' = s.file
        /\ last' = [Call("flush", "store") EXCEPT !.raised = s.raised, !.saved = TRUE]
    /\ UNCHANGED <<records, pc>>

\* choice "5": save, then leave the loop
MenuExit ==
    /\ pc = "run"
    /\ \E s \in save_records(file, records) :
        /\ s.raised # "" => faults < MaxFaults
        /\ faults' = IF s.raised # "" THEN faults + 1 ELSE faults
        /\ file' = s.file
        /\ last' = [Call("flush", "menu") EXCEPT !.raised = s.raised, !.saved = TRUE]
        /\ pc' = IF s.raised # "" THEN "crashed" ELSE "done"
    /\ UNCHANGED records

\* the program is started again on the file the last run left
Restart ==
    /\ pc \in {"done", "crashed"}
    /\ pc' = "new"
    /\ records' = PyList(<<>>)
    /\ last' = NoCall
    /\ UNCHANGED <<file, faults>>

Next ==
    \/ Construct
    \/ \E via \in Callers, r \in InputRecords : AddRecord(via, r)
    \/ \E i \in EditIndexes, r \in InputRecords : EditRecord(i, r)
    \/ \E n \in MenuNumbers, r \in InputRecords : MenuEdit(n, r)
    \/ Flush
    \/ MenuExit
    \/ Restart

\* the store and its file over the runs of the program
Spec == Init /\ [][Next]_vars

----------------------------------------------------------------------------
(* search_records over collections of every content *)

\* the longest collection searched
MaxSearched == 3

RECURSIVE SeqsUpTo(_, _)
\* the sequences over S of length at most n
SeqsUpTo(S, n) ==
    IF n = 0 THEN {<<>>}
    ELSE LET shorter == SeqsUpTo(S, n - 1) IN
         shorter \cup {Append(q, x) : q \in shorter, x \in S}

\* a running store whose file holds its records
Loaded(recs) ==
    /\ records = recs
    /\ file = FileOf(Dumps(recs, SaveIndent, 0))
    /\ pc = "run"
    /\ last = NoCall
    /\ faults = 0

\* a running store right after add_record(RecA) on no records could not open
\* the file: the record is in memory only
Unsaved ==
    /\ records = PyList(<<RecA>>)
    /\ file = NoFile
    /\ pc = "run"
    /\ last = [NoCall EXCEPT !.op = "add", !.via = "store", !.rec = RecA,
                    !.raised = "PermissionError", !.saved = TRUE]
    /\ faults = 1

InitSearch ==
    \E recs \in {PyList(q) : q \in SeqsUpTo({RecA, RecB, RecC}, MaxSearched)}
                \cup {Loads(ObjectFile).v} :
        Loaded(recs) \/ Unsaved

NextSearch ==
    \/ \E t \in SearchTerms : SearchRecords(t)
    \/ \E t \in SearchTerms : MenuSearch(t)

SpecSearch == InitSearch /\ [][NextSearch]_vars

----------------------------------------------------------------------------
(* display_records over collections of up to two pages *)

\* the longest collection displayed
MaxDisplayed == 7

InitPage ==
    \E recs \in {PyList(q) : q \in SeqsUpTo({RecA, RecB}, MaxDisplayed)}
                \cup {Loads(ObjectFile).v} :
        Loaded(recs) \/ Unsaved

NextPage ==
    \E via \in Callers, k \in PageNumbers, p \in PageSizes : DisplayRecords(via, k, p)

SpecPage == InitPage /\ [][NextPage]_vars

\* the state stays within the shapes the model covers
TypeOK ==
    /\ records.t \in {"list", "dict"}
    /\ pc \in {"new", "run", "done", "crashed"}
    /\ file.exists \in BOOLEAN

----------------------------------------------------------------------------
(* The claims *)

Min(a, b) == IF a < b THEN a ELSE b
Max(a, b) == IF a > b THEN a ELSE b

\* the storage location holds exactly the dump of the records
InSync(f, recs) == f = FileOf(Dumps(recs, SaveIndent, 0))

\* C1: after an add or an edit that returned, the file is the serialization of
\* the records in memory and a fresh load of it gives records equal to them.
C1_WriteThrough ==
    (last.op \in {"add", "edit"} /\ last.saved /\ last.raised = "") =>
        /\ InSync(file, records)
        /\ load_records(file).raised = ""
        /\ PyEq(load_records(file).val, records)

\* beside C1: on a store that holds a list, an add or an edit that returned
\* leaves the file in step with the records, and a fresh load gives them back
ListWriteThrough ==
    (last.op \in {"add", "edit"} /\ last.saved /\ last.raised = ""
        /\ records.t = "list") =>
        /\ InSync(file, records)
        /\ load_records(file).raised = ""
        /\ PyEq(load_records(file).val, records)

\* C2: edit_record with an index outside 0 .. size-1, negative ones included,
\* raises and leaves the records and the file as they were.
C2_OutOfBoundsEditFails ==
    [][(/\ last'.op = "edit" /\ last'.via = "store"
        /\ records.t = "list"
        /\ ~(0 <= last'.idx /\ last'.idx < Len(records.v)))
       => (last'.raised # "" /\ records' = records /\ file' = file)]_vars

\* the records of a list whose lower-cased rendering holds the lower-cased term
Matching(recs, term) ==
    LET Holds(e) == Contains(Lower(Rendering(e)), Lower(term))
    IN  SelectSeq(recs.v, Holds)

\* C3: search_records, given a term of any letter case, returns the records, in
\* order, whose lower-cased rendering holds the lower-cased term.
C3_SearchFoldsTerm ==
    (last.op = "search" /\ last.via = "store" /\ records.t = "list") =>
        last.out = Matching(records, last.term)

\* beside C3: a search from the menu, whose term run() lower-cases before the
\* call, returns the records whose lower-cased rendering holds the folded term
MenuSearchFolds ==
    (last.op = "search" /\ last.via = "menu" /\ records.t = "list") =>
        last.out = Matching(records, last.term)

\* C4: display_records(k, p) on n records prints records (k-1)*p+1 .. k*p that
\* exist, each under its 1-based position, min(p, max(0, n-(k-1)*p)) of them;
\* with no record it signals "empty", and a page past the end prints nothing
\* and does not signal.
C4_PageContents ==
    (last.op = "display" /\ records.t = "list") =>
        LET n == Len(records.v)
            first == (last.page - 1) * last.size
        IN  /\ last.raised = ""
            /\ (n = 0) => (last.signal = "empty" /\ last.out = <<>>)
            /\ (n > 0) =>
                /\ last.signal = ""
                /\ Len(last.out) = Min(last.size, Max(0, n - first))
                /\ \A i \in 1..Len(last.out) :
                      last.out[i] = <<first + i, records.v[first + i]>>

\* seven records, five to a page: the second page holds the last two
C4_Witness ==
    /\ last.op = "display" /\ records.t = "list" /\ Len(records.v) = 7
    /\ last.size = 5 /\ last.page = 2 /\ Len(last.out) = 2

\* C5: edit_record with a valid index keeps the length, puts the record at that
\* position and leaves every other position as it was.
C5_EditFrame ==
    [][(/\ last'.op = "edit" /\ records.t = "list"
        /\ 0 <= last'.idx /\ last'.idx < Len(records.v))
       => (/\ records'.t = "list"
           /\ Len(records'.v) = Len(records.v)
           /\ records'.v[last'.idx + 1] = last'.rec
           /\ \A j \in 1..Len(records.v) :
                 j # last'.idx + 1 => records'.v[j] = records.v[j])]_vars

\* an edit of one of two records that differ
C5_Witness ==
    /\ last.op = "edit" /\ last.raised = "" /\ records.t = "list"
    /\ Len(records.v) >= 2
    /\ 0 <= last.idx /\ last.idx < Len(records.v)
    /\ records.v[last.idx + 1] = last.rec
    /\ \E j \in 1..Len(records.v) : records.v[j] # last.rec

\* the file holds an array: the only content load_records has a collection for
HoldsArray(f) ==
    /\ f.exists
    /\ \A i \in 1..Len(f.data) : f.data[i] # BADBYTE
    /\ Loads(f.data).ok
    /\ Loads(f.data).v.t = "list"

\* C6: load_records never raises and returns a list, the empty one when the file
\* is missing or holds anything but an array.
C6_LoadNeverRaises ==
    (last.op = "load") =>
        /\ last.raised = ""
        /\ last.ret.t = "list"
        /\ ~HoldsArray(file) => last.ret.v = <<>>

\* C7: a save either writes the whole serialization or raises and leaves the
\* file as it was before the call.
C7_SaveAtomic ==
    [][last'.saved =>
          \/ (last'.raised = "" /\ InSync(file', records'))
          \/ (last'.raised # "" /\ file' = file)]_vars

\* C8 as stated: add_record returns the 1-based position of the new record.
C8_AddReturnsPosition ==
    (last.op = "add" /\ last.raised = "" /\ records.t = "list") =>
        last.ret = PyInt(IntText(Len(records.v)))

\* C8: add_record on n records leaves n+1, the first n as they were and the new
\* one last, and returns None; no add or edit makes the collection shorter.
C8_AddAppends ==
    [][/\ (last'.op = "add" /\ records.t = "list") =>
            /\ records'.t = "list"
            /\ Len(records'.v) = Len(records.v) + 1
            /\ \A j \in 1..Len(records.v) : records'.v[j] = records.v[j]
            /\ records'.v[Len(records.v) + 1] = last'.rec
            /\ last'.ret = Nothing
       /\ (last'.op \in {"add", "edit"} /\ records.t = "list") =>
            /\ records'.t = "list"
            /\ Len(records'.v) >= Len(records.v)]_vars

\* a record added behind another one that differs from it
C8_Witness ==
    /\ last.op = "add" /\ last.raised = "" /\ records.t = "list"
    /\ Len(records.v) >= 2
    /\ records.v[Len(records.v)] = last.rec
    /\ records.v[1] # last.rec

\* C9: after save_records has written a list of records, load_records returns
\* that list: as long, in the same order, each field the same.
C9_RoundTrip ==
    (last.saved /\ last.raised = "" /\ records.t = "list") =>
        LET l == load_records(file) IN
        /\ l.raised = ""
        /\ l.val.t = "list"
        /\ Len(l.val.v) = Len(records.v)
        /\ \A i \in 1..Len(records.v) : l.val.v[i] = records.v[i]

\* a saved list of two records, one with a non-ASCII value, a quote, a backslash
\* and a line feed, the other with empty fields
C9_Witness ==
    /\ last.saved /\ last.raised = "" /\ records.t = "list"
    /\ InSync(file, records)
    /\ \E i, j \in 1..Len(records.v) : records.v[i] = RecA /\ records.v[j] = RecB

\* C10: when the save of an add or edit fails, the call raises, the records in
\* memory hold the mutation and the store can be called again; and any call
\* whose save returns leaves the file holding the dump of the records.
C10_FailedSave ==
    last.saved =>
        /\ last.raised = "" => InSync(file, records)
        /\ (/\ last.op \in {"add", "edit"} /\ last.via = "store"
            /\ records.t = "list"
            /\ ~InSync(file, records))
           => (/\ last.raised # ""
               /\ pc = "run"
               /\ records.v # <<>>
               /\ last.op = "add" => records.v[Len(records.v)] = last.rec
               /\ last.op = "edit" =>
                     \E j \in 1..Len(records.v) : records.v[j] = last.rec)

\* a call whose save succeeded right after an add or edit whose save failed
C10_Witness ==
    /\ last.recovering /\ last.saved /\ last.raised = ""
    /\ last.op \in {"add", "edit", "flush"}
    /\ records.t = "list" /\ records.v # <<>>
    /\ InSync(file, records)

====
